---- MODULE Spec2Model ----
(***************************************************************************)
(* A model of the ATC message classification pipeline of atc_logic.py:    *)
(* generate_classification_prompt, call_ollama_api, parse_response,       *)
(* classify_message and validate_connection of ATCMessageProcessor.       *)
(*                                                                         *)
(* Text is a sequence of tokens.  A token is an atomic piece of a Python   *)
(* string: a tag ("SENDER:", also in lower case), the marker "Error:", a   *)
(* white-space character (" ", "\n", "\t") or a word that holds none of    *)
(* these.  Substring search, regular-expression search and strip() work    *)
(* on the tokens the way the code works on characters.                     *)
(*                                                                         *)
(* A Python value is a record [t, v]: t its type ("str", "list", "none",   *)
(* "int", "dict") and v its content as a sequence.                         *)
(***************************************************************************)
EXTENDS Integers, Sequences, FiniteSets, TLC

VARIABLES
    pc,            \* position of the running call
    op,            \* the operation called
    message,       \* classify_message's message argument (text)
    sender_type,   \* classify_message's sender_type argument
    prompt,        \* the prompt handed to call_ollama_api
    posts,         \* the requests.post calls issued by the running call
    outcome,       \* what the request of the running call came to
    raw_response,  \* what call_ollama_api returned to classify_message
    result,        \* what the call returned or raised
    ncalls,        \* calls made so far
    ollama_url,        \* the dashboard's "Ollama API URL" field
    ollama_model,      \* the dashboard's "Model Name" field
    processor,         \* st.session_state.processor
    connection_status, \* st.session_state.connection_status
    last_result,       \* st.session_state.last_result
    root_handlers,     \* capture handlers attached to the root logger
    tested,            \* history: the (URL, model) pairs a connection test succeeded for
    run,               \* history: what the last script run did
    nruns              \* script runs made so far

callvars == <<pc, op, message, sender_type, prompt, posts, outcome, raw_response, result, ncalls>>
dashvars == <<ollama_url, ollama_model, processor, connection_status, last_result,
              root_handlers, tested, run, nruns>>
vars == <<callvars, dashvars>>

----------------------------------------------------------------------------
(* Bounds of the model.                                                    *)

\* a reply holds at most MaxOdd tagged lines whose value is not the one of the
\* round-trip example
MaxOdd == 1
\* calls made one after the other on one processor
MaxCalls == 2
\* script runs of the dashboard after the first
MaxRuns == 4

----------------------------------------------------------------------------
(* Python values.                                                          *)

PyStr(s) == [t |-> "str", v |-> s]
PyList(s) == [t |-> "list", v |-> s]
PyNone == [t |-> "none", v |-> <<>>]
PyInt == [t |-> "int", v |-> <<"5">>]
PyDict == [t |-> "dict", v |-> <<"a">>]

\* Python's truth value: None, "" and [] are false
Truthy(x) == x.t # "none" /\ x.v # <<>>

\* x in container: substring of a string, element of a list
In(tok, x) == \E i \in 1..Len(x.v) : x.v[i] = tok

IsSpace(c) == c \in {" ", "\n", "\t"}

\* str.strip(): leading and trailing white space removed
Strip(s) ==
    LET idx == {i \in 1..Len(s) : ~IsSpace(s[i])}
    IN  IF idx = {} THEN <<>>
        ELSE SubSeq(s, CHOOSE i \in idx : \A j \in idx : i <= j,
                       CHOOSE i \in idx : \A j \in idx : j <= i)

\* re.IGNORECASE on the tags: the upper-case form of a token
Upper(c) ==
    CASE c = "sender:" -> "SENDER:"
      [] c = "type:" -> "TYPE:"
      [] c = "aircraft:" -> "AIRCRAFT:"
      [] c = "details:" -> "DETAILS:"
      [] c = "response:" -> "RESPONSE:"
      [] OTHER -> c

----------------------------------------------------------------------------
(* parse_response.                                                         *)

Keys == {"sender", "type", "aircraft", "details", "response"}

\* the defaults of parse_response
parsed_defaults ==
    [sender   |-> PyStr(<<"Unknown">>),
     type     |-> PyStr(<<"Unknown">>),
     aircraft |-> PyStr(<<"Not specified">>),
     details  |-> PyStr(<<"No details provided">>),
     response |-> PyStr(<<"No response generated">>)]

\* the tag each pattern starts with
TagOf ==
    [sender   |-> "SENDER:",
     type     |-> "TYPE:",
     aircraft |-> "AIRCRAFT:",
     details  |-> "DETAILS:",
     response |-> "RESPONSE:"]

\* \s* after the tag at i: the length of the white-space run from i+1
SpaceRun(s, i) ==
    LET ends == {j \in (i + 1)..(Len(s) + 1) : j = Len(s) + 1 \/ ~IsSpace(s[j])}
    IN  (CHOOSE j \in ends : \A k \in ends : j <= k) - (i + 1)

\* where group 1 starts for the tag at i, 0 when the pattern cannot match
\* there: \s* is greedy and gives one character back when the run reaches
\* the end of the text, because (.+?) needs a character (DOTALL: any one)
GroupStart(s, i) ==
    LET r == SpaceRun(s, i)
    IN  IF i + 1 + r <= Len(s) THEN i + 1 + r
        ELSE IF r >= 1 THEN Len(s)
        ELSE 0

\* IsStop with a details value that runs over line breaks up to RESPONSE:
IsStop_DetailsOverLines(key, s, q) ==
    \/ q = Len(s) + 1
    \/ key # "details" /\ s[q] = "\n"
    \/ key = "details" /\ Upper(s[q]) = "RESPONSE:"

\* (?:\n|$), and (?:\n|RESPONSE:|$) for details, at position q
IsStop(key, s, q) ==
    \/ q = Len(s) + 1
    \/ s[q] = "\n"
    \/ key = "details" /\ Upper(s[q]) = "RESPONSE:"

\* (.+?) is lazy: group 1 ends before the first stop after its first character
GroupEnd(key, s, p) ==
    LET stops == {q \in (p + 1)..(Len(s) + 1) : IsStop(key, s, q)}
    IN  (CHOOSE q \in stops : \A k \in stops : q <= k) - 1

\* re.search(patterns[key], response, re.IGNORECASE | re.DOTALL): the
\* leftmost position where the pattern matches, and its group 1
re_search(key, s) ==
    LET at == {i \in 1..Len(s) : Upper(s[i]) = TagOf[key] /\ GroupStart(s, i) # 0}
    IN  IF at = {} THEN [matched |-> FALSE, group |-> <<>>]
        ELSE LET i == CHOOSE i \in at : \A j \in at : i <= j
                 p == GroupStart(s, i)
             IN  [matched |-> TRUE, group |-> SubSeq(s, p, GroupEnd(key, s, p))]

\* value and value != "[Not specified]" and value != "N/A"
Accepted(value) ==
    /\ value # <<>>
    /\ value # <<"[Not specified]">>
    /\ value # <<"N/A">>

\* one turn of the loop over patterns.items()
Extract(key, s) ==
    LET m == re_search(key, s)
        value == Strip(m.group)
    IN  IF m.matched /\ Accepted(value) THEN PyStr(value) ELSE parsed_defaults[key]

\* ShortCircuit with response.startswith("Error:") for the substring test
ShortCircuit_StartsWith(response) ==
    ~Truthy(response) \/ (Len(response.v) > 0 /\ response.v[1] = "Error:")

\* if not response or "Error:" in response
ShortCircuit(response) == ~Truthy(response) \/ In("Error:", response)

Return(x) == [kind |-> "return", value |-> x]
Raise(e) == [kind |-> "raise", value |-> e]

parse_response(response) ==
    IF response.t \notin {"str", "list"}
    THEN Raise("TypeError")     \* response[:500] of None or a number
    ELSE IF ShortCircuit(response)
    THEN Return([parsed_defaults EXCEPT !.details =
                    IF Truthy(response) THEN response
                    ELSE PyStr(<<"No response received">>)])
    ELSE IF response.t # "str"
    THEN Raise("TypeError")     \* re.search on a list
    ELSE Return([key \in Keys |-> Extract(key, response.v)])

----------------------------------------------------------------------------
(* generate_classification_prompt.                                         *)

SenderTypes == {"AUTO", "PILOT", "ATC"}

AutoSenderInstruction ==
    "1. Determine if the message is from a PILOT or from ATC (Air Traffic Control). ..."
AutoResponseInstruction ==
    "4. Provide appropriate response (if from PILOT, give ATC response; if from ATC, give PILOT response)"
PilotSenderInstruction == "1. This message is from a PILOT"
PilotResponseInstruction == "4. Provide appropriate ATC response to this pilot message"
AtcSenderInstruction == "1. This message is from ATC (Air Traffic Control)"
AtcResponseInstruction == "4. Provide appropriate PILOT response to this ATC message"

\* sender_instruction with the PILOT and ATC branches exchanged
sender_instruction_Swapped(st) ==
    IF st = "AUTO" THEN AutoSenderInstruction
    ELSE IF st = "PILOT" THEN AtcSenderInstruction
    ELSE PilotSenderInstruction

\* the if / elif / else over sender_type
sender_instruction(st) ==
    IF st = "AUTO" THEN AutoSenderInstruction
    ELSE IF st = "PILOT" THEN PilotSenderInstruction
    ELSE AtcSenderInstruction

response_instruction(st) ==
    IF st = "AUTO" THEN AutoResponseInstruction
    ELSE IF st = "PILOT" THEN PilotResponseInstruction
    ELSE AtcResponseInstruction

\* the template up to the opening quote of the message
PromptHead ==
    <<"\n",
      "You are an ATC Message Classification System. Analyze this aviation communication message and classify it.",
      "\n", "\n", "Message: \"">>

\* the template after the instructions: the rules for a PILOT response, the
\* worked examples and the five-line reply format
PromptTail ==
    <<"\n", "PILOT RESPONSE FORMAT:", "\n",
      "ALways put flight number at the end while generating flight response. ...",
      "\n", "For example:", "\n", "\n", "- ATC: ... - PILOT: ... (worked examples)", "\n", "\n",
      "Respond in this exact format:", "\n",
      "SENDER:", " ", "[PILOT/ATC]", "\n",
      "TYPE:", " ", "[EMERGENCY/NORMAL/WEATHER/TRAFFIC/NAVIGATION/FUEL/RUNWAY/COMMUNICATION]", "\n",
      "AIRCRAFT:", " ", "[Call sign if mentioned]", "\n",
      "DETAILS:", " ", "[Brief description]", "\n",
      "RESPONSE:", " ",
      "[Appropriate response - ATC response if sender is PILOT, PILOT response if sender is ATC]",
      "\n">>

\* from the closing quote of the message to "Your task:"
PromptMid(st) == <<"\"", "\n", "Sender Type: ", st, "\n", "\n", "Your task:", "\n">>

\* the four numbered tasks
PromptTask(st) ==
    <<sender_instruction(st), "\n",
      "2. Classify the message type (EMERGENCY, NORMAL, WEATHER, TRAFFIC, etc.)", "\n",
      "3. Extract key information (aircraft ID, runway, altitude, etc.)", "\n",
      response_instruction(st), "\n">>

\* the f-string: the message and the sender type are interpolated as they are
generate_classification_prompt(msg, st) ==
    PromptHead \o msg \o PromptMid(st) \o PromptTask(st) \o PromptTail

----------------------------------------------------------------------------
(* The inputs the model draws from.                                        *)

\* messages: empty, white space only, plain, with surrounding white space,
\* and one that reads like an instruction of the template
Messages ==
    {<<>>, <<" ">>, <<" ", "\n", "\t">>,
     <<"Mayday, Mayday, engine fire, Airbus A320">>,
     <<" ", "United", " ", "456", "\n">>,
     <<PilotSenderInstruction>>}

\* the value of each tag in the reply of the round-trip example
GoodValue ==
    [sender   |-> <<"PILOT">>,
     type     |-> <<"EMERGENCY">>,
     aircraft |-> <<"N123AB">>,
     details  |-> <<"engine", " ", "fire">>,
     response |-> <<"Declare emergency, cleared direct, N123AB">>]

\* another plain value of each tag
AltValue ==
    [sender   |-> <<"ATC">>,
     type     |-> <<"NORMAL">>,
     aircraft |-> <<"United", " ", "456">>,
     details  |-> <<"ready", " ", "for", " ", "takeoff">>,
     response |-> <<"Cleared for takeoff runway 28R, United 456">>]

\* what a tagged line may carry instead: the other plain value, nothing,
\* white space only, or one of the two sentinels
OddKinds == {"alt", "empty", "blank", "na", "notspec"}

\* the line of tag key: "<TAG>: <value>"
Line(key, kind) ==
    CASE kind = "good" -> <<TagOf[key], " ">> \o GoodValue[key]
      [] kind = "alt" -> <<TagOf[key], " ">> \o AltValue[key]
      [] kind = "empty" -> <<TagOf[key]>>
      [] kind = "blank" -> <<TagOf[key], " ">>
      [] kind = "na" -> <<TagOf[key], " ", "N/A">>
      [] kind = "notspec" -> <<TagOf[key], " ", "[Not specified]">>

\* every order of every subset of the five tags
Orders ==
    {o \in UNION {[1..n -> Keys] : n \in 0..Cardinality(Keys)} :
        \A i, j \in DOMAIN o : i # j => o[i] # o[j]}

\* the choices of at most MaxOdd lines of o, each with the odd value it carries
OddChoices(o) ==
    UNION {[S -> OddKinds] : S \in {T \in SUBSET DOMAIN o : Cardinality(T) <= MaxOdd}}

KindAt(f, i) == IF i \in DOMAIN f THEN f[i] ELSE "good"

RECURSIVE JoinLines(_, _, _)
\* the lines of o from the i-th on, one per line
JoinLines(o, f, i) ==
    IF i > Len(o) THEN <<>>
    ELSE Line(o[i], KindAt(f, i))
         \o (IF i < Len(o) THEN <<"\n">> ELSE <<>>)
         \o JoinLines(o, f, i + 1)

\* a reply: tagged lines, with or without a line break after the last
Reply(o, f, nl) == JoinLines(o, f, 1) \o (IF nl /\ Len(o) > 0 THEN <<"\n">> ELSE <<>>)

RECURSIVE JoinText(_, _)
\* the given lines from the i-th on, one per line
JoinText(lines, i) ==
    IF i > Len(lines) THEN <<>>
    ELSE lines[i] \o (IF i < Len(lines) THEN <<"\n">> ELSE <<>>) \o JoinText(lines, i + 1)

\* a DETAILS line whose value goes on over a second line
MultiLineDetails ==
    <<"DETAILS:", " ", "engine", " ", "fire", "\n", "on", " ", "climb-out">>

\* a reply whose details take two lines
MultiLineReply(o, nl) ==
    JoinText([i \in DOMAIN o |->
                IF o[i] = "details" THEN MultiLineDetails ELSE Line(o[i], "good")], 1)
    \o (IF nl THEN <<"\n">> ELSE <<>>)

\* the tags as a reply may write them inside a value
TagTokens ==
    {TagOf[key] : key \in Keys} \cup {"sender:", "type:", "aircraft:", "details:", "response:"}

\* the line of tag key with the text of a tag in the middle of its value
MidLine(key, tok) == <<TagOf[key], " ", "see", " ", tok, " ", "x">>

\* a reply whose i-th line carries the tag text tok in mid-line
MidLineReply(o, i, tok) ==
    JoinText([j \in DOMAIN o |->
                IF j = i THEN MidLine(o[j], tok) ELSE Line(o[j], "good")], 1)

\* the replies whose tagged lines all carry plain values
PlainReplies == UNION {{Reply(o, <<>>, nl) : nl \in BOOLEAN} : o \in Orders}

\* replies that hold "Error:": before, after or inside well-formed lines
ErrorReplies ==
    UNION {{<<"Error:", " ", "HTTP 500 - boom", "\n">> \o r,
            r \o <<"\n", "Connection", " ", "Error:", " ", "refused">>,
            r \o <<"\n", "DETAILS:", " ", "ILS", " ", "Error:", " ", "glideslope">>}
           : r \in PlainReplies}

\* a reply with the marker in lower case is no error reply
LowerErrorReplies == {r \o <<"\n", "error:", " ", "none">> : r \in PlainReplies}

MarkedReplies == ErrorReplies \cup LowerErrorReplies

----------------------------------------------------------------------------
(* The remote service: what one requests.post can come to.                 *)

\* the texts a reply's message.content holds in the pipeline
ContentTexts ==
    {<<>>,
     Reply(<<"sender", "type", "aircraft", "details", "response">>, <<>>, FALSE),
     Reply(<<"sender", "type", "details", "response">>, <<>>, TRUE),
     Reply(<<"sender", "aircraft", "details">>, [i \in {2} |-> "empty"], FALSE),
     <<"I", " ", "cannot", " ", "classify", " ", "this">>,
     <<"DETAILS:", " ", "ILS", " ", "Error:", " ", "glideslope">>}

\* message.content of a decoded body: a string, or what JSON also allows
Contents ==
    {PyStr(c) : c \in ContentTexts}
    \cup {PyNone, PyInt, PyDict, PyList(<<>>), PyList(<<"x">>)}

Outcome(kind, status, shape, exc, content, text, detail) ==
    [kind |-> kind, status |-> status, shape |-> shape, exc |-> exc,
     content |-> content, text |-> text, detail |-> detail]

\* requests.post raises: connection refused, timeout (both RequestException),
\* or something else
Failures ==
    {Outcome("connection", 0, "none", "none", PyNone, <<>>, <<"Connection refused">>),
     Outcome("timeout", 0, "none", "none", PyNone, <<>>, <<"Read timed out">>),
     Outcome("fault", 0, "none", "none", PyNone, <<>>, <<"out of memory">>)}

\* a response with a status other than 200
ErrorStatuses ==
    {Outcome("response", st, "none", "none", PyNone, text, <<>>) :
        st \in {404, 500}, text \in {<<>>, <<"boom">>}}

\* HTTP 200 with a body response.json() cannot decode.  The exception it raises
\* depends on the installed requests: requests.exceptions.JSONDecodeError (a
\* RequestException and a json.JSONDecodeError), json.JSONDecodeError, or
\* simplejson's (neither)
Undecodable ==
    {Outcome("response", 200, "undecodable", exc, PyNone, <<"not json">>,
             <<"Expecting value: line 1 column 1 (char 0)">>) :
        exc \in {"requests.JSONDecodeError", "json.JSONDecodeError", "simplejson.JSONDecodeError"}}

\* HTTP 200 with a body that decodes: not an object, an object without
\* "message", with a "message" that is no object, with a "message" without
\* "content", or with "content"
Decoded ==
    {Outcome("response", 200, shape, "none", PyNone, <<"json">>, <<>>) :
        shape \in {"nonobject", "no_message", "message_nonobject", "no_content"}}
    \cup {Outcome("response", 200, "content", "none", c, <<"json">>, <<>>) : c \in Contents}

Outcomes == Failures \cup ErrorStatuses \cup Undecodable \cup Decoded

----------------------------------------------------------------------------
(* call_ollama_api.                                                        *)

ClassifyTimeout == 30
ProbeTimeout == 10

\* the except clauses, in their order: RequestException, json.JSONDecodeError,
\* Exception
ConnectionError(detail) == PyStr(<<"Connection", " ", "Error:", " ">> \o detail)
JSONError(detail) == PyStr(<<"JSON", " ", "Error:", " ">> \o detail)
UnexpectedError(detail) == PyStr(<<"Unexpected", " ", "Error:", " ">> \o detail)

\* the else branch of status_code == 200
HTTPError(status, text) ==
    PyStr(<<"Error:", " ", "HTTP", " ", ToString(status), " ", "-", " ">> \o text)

\* the except clause that catches what response.json() raised
JsonFailure(o) ==
    IF o.exc = "requests.JSONDecodeError" THEN ConnectionError(o.detail)
    ELSE IF o.exc = "json.JSONDecodeError" THEN JSONError(o.detail)
    ELSE UnexpectedError(o.detail)

\* the status_code == 200 branch on a decoded body: result.keys(),
\* result.get("message", {}).get("content", ""), len(content), content[:200]
ContentOf(o) ==
    CASE o.shape = "nonobject" -> UnexpectedError(<<"object has no attribute 'keys'">>)
      [] o.shape = "no_message" -> PyStr(<<>>)
      [] o.shape = "message_nonobject" -> UnexpectedError(<<"object has no attribute 'get'">>)
      [] o.shape = "no_content" -> PyStr(<<>>)
      [] o.shape = "content" ->
            IF o.content.t \in {"str", "list"} THEN o.content
            ELSE IF o.content.t = "dict" THEN UnexpectedError(<<"unhashable type: 'slice'">>)
            ELSE UnexpectedError(<<"object has no len()">>)

\* what call_ollama_api returns when its request comes to o
call_ollama_api(o) ==
    CASE o.kind \in {"connection", "timeout"} -> ConnectionError(o.detail)
      [] o.kind = "fault" -> UnexpectedError(o.detail)
      [] o.kind = "response" /\ o.status # 200 -> HTTPError(o.status, o.text)
      [] o.kind = "response" /\ o.status = 200 /\ o.shape = "undecodable" -> JsonFailure(o)
      [] OTHER -> ContentOf(o)

----------------------------------------------------------------------------
(* validate_connection.                                                    *)

ConnectivityResult(success, msg) == [success |-> success, message |-> PyStr(msg)]

\* what validate_connection returns when its request comes to o
validate_connection(o) ==
    CASE o.kind \in {"connection", "timeout", "fault"} ->
            ConnectivityResult(FALSE, <<"Connection failed: ">> \o o.detail)
      [] o.kind = "response" /\ o.status # 200 ->
            ConnectivityResult(FALSE, <<"HTTP", " ", ToString(o.status), ":", " ">> \o o.text)
      [] o.kind = "response" /\ o.status = 200 /\ o.shape = "undecodable" ->
            ConnectivityResult(FALSE, <<"Connection failed: ">> \o o.detail)
      [] o.kind = "response" /\ o.status = 200 /\ o.shape = "nonobject" ->
            ConnectivityResult(FALSE, <<"Connection failed: ", "object has no attribute 'keys'">>)
      [] OTHER -> ConnectivityResult(TRUE, <<"Connection successful">>)

----------------------------------------------------------------------------
(* classify_message.                                                       *)

EmptyInputError ==
    [success |-> FALSE, error |-> PyStr(<<"Please enter a message to classify">>),
     data |-> <<>>]

NoResponseError ==
    [success |-> FALSE, error |-> PyStr(<<"No response from Ollama API">>),
     data |-> <<>>]

\* IsBlank without the strip(): if not message
IsBlank_NoStrip(msg) == msg = <<>>

\* if not message.strip()
IsBlank(msg) == Strip(msg) = <<>>

\* classify_message from the return of call_ollama_api on
classify_tail(raw) ==
    IF raw.t = "none" THEN Return(NoResponseError)
    ELSE LET parsed == parse_response(raw)
         IN  IF parsed.kind = "raise" THEN parsed
             ELSE Return([success |-> TRUE, error |-> PyNone,
                          data |-> parsed.value, raw_response |-> raw])

\* the json= and timeout= of one requests.post
Post(content, timeout) ==
    [messages |-> <<[role |-> "user", content |-> content]>>,
     stream |-> FALSE, timeout |-> timeout]

----------------------------------------------------------------------------
(* The calls on one processor, one after the other.                        *)

NoResult == [kind |-> "none", value |-> <<>>]
NoOutcome == Outcome("none", 0, "none", "none", PyNone, <<>>, <<>>)

\* __init__
ATCMessageProcessor(url, model) == [ollama_url |-> url, model |-> model]

\* the values of the two text fields of the sidebar, the first the default
Urls == {"http://127.0.0.1:11434/api/chat", "http://10.0.0.5:11434/api/chat"}
Models == {"gemma3:4b", "llama3"}
DefaultUrl == "http://127.0.0.1:11434/api/chat"
DefaultModel == "gemma3:4b"

\* what one script run did: the widget that set it off, whether the warning
\* was shown, whether classify_message was called and on which processor,
\* whether last_result was assigned
Ran(event, warned, classified, on, wrote) ==
    [event |-> event, warned |-> warned, classified |-> classified,
     on |-> on, wrote |-> wrote]

NoProcessor == ATCMessageProcessor("", "")

\* the dashboard after its first script run: initialize_session_state, the
\* fields at their defaults, the processor made from them
FirstRun ==
    /\ ollama_url = DefaultUrl
    /\ ollama_model = DefaultModel
    /\ processor = ATCMessageProcessor(DefaultUrl, DefaultModel)
    /\ connection_status = NoResult
    /\ last_result = NoResult
    /\ root_handlers = 0
    /\ tested = {}
    /\ run = Ran("open", FALSE, FALSE, NoProcessor, FALSE)
    /\ nruns = 0

Init ==
    /\ FirstRun
    /\ pc = "idle"
    /\ op = "none"
    /\ message = <<>>
    /\ sender_type = "AUTO"
    /\ prompt = <<>>
    /\ posts = <<>>
    /\ outcome = NoOutcome
    /\ raw_response = PyNone
    /\ result = NoResult
    /\ ncalls = 0

\* classify_message up to the request of call_ollama_api, or to its early return
ClassifyBegin(msg, st) ==
    /\ pc = "idle"
    /\ ncalls < MaxCalls
    /\ op' = "classify_message"
    /\ message' = msg
    /\ sender_type' = st
    /\ ncalls' = ncalls + 1
    /\ raw_response' = PyNone
    /\ outcome' = NoOutcome
    /\ IF IsBlank(msg)
       THEN /\ pc' = "done"
            /\ result' = Return(EmptyInputError)
            /\ prompt' = <<>>
            /\ posts' = <<>>
       ELSE /\ pc' = "classify_post"
            /\ result' = NoResult
            /\ prompt' = generate_classification_prompt(msg, st)
            /\ posts' = <<Post(generate_classification_prompt(msg, st), ClassifyTimeout)>>
    /\ UNCHANGED dashvars

\* the request comes to o: the rest of call_ollama_api and of classify_message
ClassifyEnd(o) ==
    /\ pc = "classify_post"
    /\ pc' = "done"
    /\ outcome' = o
    /\ raw_response' = call_ollama_api(o)
    /\ result' = classify_tail(call_ollama_api(o))
    /\ UNCHANGED <<op, message, sender_type, prompt, posts, ncalls>>
    /\ UNCHANGED dashvars

\* validate_connection up to its request
ProbeBegin ==
    /\ pc = "idle"
    /\ ncalls < MaxCalls
    /\ op' = "validate_connection"
    /\ pc' = "probe_post"
    /\ ncalls' = ncalls + 1
    /\ posts' = <<Post(<<"Hello">>, ProbeTimeout)>>
    /\ message' = <<>>
    /\ sender_type' = "AUTO"
    /\ prompt' = <<>>
    /\ outcome' = NoOutcome
    /\ raw_response' = PyNone
    /\ result' = NoResult
    /\ UNCHANGED dashvars

\* the request comes to o: the rest of validate_connection
ProbeEnd(o) ==
    /\ pc = "probe_post"
    /\ pc' = "done"
    /\ outcome' = o
    /\ result' = Return(validate_connection(o))
    /\ UNCHANGED <<op, message, sender_type, prompt, posts, raw_response, ncalls>>
    /\ UNCHANGED dashvars

\* the caller takes the result; the processor keeps nothing of the call
Finish ==
    /\ pc = "done"
    /\ pc' = "idle"
    /\ op' = "none"
    /\ message' = <<>>
    /\ sender_type' = "AUTO"
    /\ prompt' = <<>>
    /\ posts' = <<>>
    /\ outcome' = NoOutcome
    /\ raw_response' = PyNone
    /\ result' = NoResult
    /\ UNCHANGED <<ncalls, dashvars>>

Next ==
    \/ \E msg \in Messages, st \in SenderTypes : ClassifyBegin(msg, st)
    \/ \E o \in Outcomes : ClassifyEnd(o)
    \/ ProbeBegin
    \/ \E o \in Outcomes : ProbeEnd(o)
    \/ Finish

Spec == Init /\ [][Next]_vars

----------------------------------------------------------------------------
(* The pure functions on their own: generate_classification_prompt on      *)
(* every message and sender type, parse_response on every text.            *)

InitPure ==
    /\ FirstRun
    /\ pc = "call"
    /\ posts = <<>>
    /\ outcome = NoOutcome
    /\ result = NoResult
    /\ prompt = <<>>
    /\ ncalls = 0
    /\ \/ /\ op = "parse_response"
          /\ \/ \E o \in Orders : \E f \in OddChoices(o) : \E nl \in BOOLEAN :
                    raw_response = PyStr(Reply(o, f, nl))
             \/ \E r \in MarkedReplies : raw_response = PyStr(r)
             \/ \E o \in Orders : \E nl \in BOOLEAN :
                    /\ \E i \in DOMAIN o : o[i] = "details"
                    /\ raw_response = PyStr(MultiLineReply(o, nl))
             \/ \E o \in Orders : \E i \in DOMAIN o : \E tok \in TagTokens :
                    /\ Len(o) = Cardinality(Keys)
                    /\ Upper(tok) # TagOf[o[i]]
                    /\ raw_response = PyStr(MidLineReply(o, i, tok))
          /\ message = <<>>
          /\ sender_type = "AUTO"
       \/ /\ op = "generate_classification_prompt"
          /\ raw_response = PyNone
          /\ message \in Messages
          /\ sender_type \in SenderTypes

ApplyParse ==
    /\ pc = "call"
    /\ op = "parse_response"
    /\ pc' = "done"
    /\ result' = parse_response(raw_response)
    /\ UNCHANGED <<op, message, sender_type, prompt, posts, outcome, raw_response, ncalls>>
    /\ UNCHANGED dashvars

ApplyBuild ==
    /\ pc = "call"
    /\ op = "generate_classification_prompt"
    /\ pc' = "done"
    /\ prompt' = generate_classification_prompt(message, sender_type)
    /\ result' = Return(PyStr(generate_classification_prompt(message, sender_type)))
    /\ UNCHANGED <<op, message, sender_type, posts, outcome, raw_response, ncalls>>
    /\ UNCHANGED dashvars

NextPure == ApplyParse \/ ApplyBuild

SpecPure == InitPure /\ [][NextPure]_vars

----------------------------------------------------------------------------
(* The dashboard: every action is one run of the script, set off by a      *)
(* widget, from the top of main to its end or its return.                  *)

\* classify_message as the dashboard calls it, its request coming to o
classify_message(msg, st, o) ==
    IF IsBlank(msg) THEN Return(EmptyInputError)
    ELSE classify_tail(call_ollama_api(o))

\* the last_result the except clause of the Process click stores
ExceptionResult(e) ==
    [success |-> FALSE, error |-> PyStr(<<"Exception: ", e>>), data |-> <<>>]

\* the test `not connection_status or not connection_status["success"]`
NotConnected(status) == status.kind = "none" \/ ~status.value.success

\* the URL field is edited
EditUrl(u) ==
    /\ nruns < MaxRuns
    /\ u # ollama_url
    /\ ollama_url' = u
    /\ run' = Ran("edit", FALSE, FALSE, NoProcessor, FALSE)
    /\ nruns' = nruns + 1
    /\ UNCHANGED <<ollama_model, processor, connection_status, last_result,
                   root_handlers, tested>>
    /\ UNCHANGED callvars

\* the model field is edited
EditModel(m) ==
    /\ nruns < MaxRuns
    /\ m # ollama_model
    /\ ollama_model' = m
    /\ run' = Ran("edit", FALSE, FALSE, NoProcessor, FALSE)
    /\ nruns' = nruns + 1
    /\ UNCHANGED <<ollama_url, processor, connection_status, last_result,
                   root_handlers, tested>>
    /\ UNCHANGED callvars

\* Test Connection is clicked and the probe's request comes to o
TestConnection(o) ==
    /\ nruns < MaxRuns
    /\ LET p == ATCMessageProcessor(ollama_url, ollama_model)
           connection_result == validate_connection(o)
       IN  /\ connection_status' = Return(connection_result)
           /\ processor' = IF connection_result.success THEN p ELSE processor
           /\ tested' = IF connection_result.success THEN tested \cup {p} ELSE tested
    /\ run' = Ran("test", FALSE, FALSE, NoProcessor, FALSE)
    /\ nruns' = nruns + 1
    /\ UNCHANGED <<ollama_url, ollama_model, last_result, root_handlers>>
    /\ UNCHANGED callvars

\* Process is clicked with msg in the text area and st selected; the request
\* of classify_message, when one is made, comes to o
ProcessClick(msg, st, o) ==
    /\ nruns < MaxRuns
    /\ ~IsBlank(msg)
    /\ IF NotConnected(connection_status)
       THEN /\ root_handlers' = root_handlers + 1
            /\ run' = Ran("process", TRUE, FALSE, NoProcessor, FALSE)
            /\ UNCHANGED <<processor, last_result>>
       ELSE LET p == ATCMessageProcessor(ollama_url, ollama_model)
                r == classify_message(msg, st, o)
            IN  /\ processor' = p
                /\ last_result' = IF r.kind = "raise"
                                  THEN Return(ExceptionResult(r.value))
                                  ELSE r
                /\ root_handlers' = (root_handlers + 1) - 1
                /\ run' = Ran("process", FALSE, TRUE, p, TRUE)
    /\ nruns' = nruns + 1
    /\ UNCHANGED <<ollama_url, ollama_model, connection_status, tested>>
    /\ UNCHANGED callvars

NextDash ==
    \/ \E u \in Urls : EditUrl(u)
    \/ \E m \in Models : EditModel(m)
    \/ \E o \in Outcomes : TestConnection(o)
    \/ \E msg \in Messages, st \in SenderTypes, o \in Outcomes : ProcessClick(msg, st, o)

SpecDash == Init /\ [][NextDash]_vars

----------------------------------------------------------------------------
(* What the claims speak of.                                               *)

TagSet == {"SENDER:", "TYPE:", "AIRCRAFT:", "DETAILS:", "RESPONSE:"}
Sentinels == {<<"[Not specified]">>, <<"N/A">>}

\* the defaults of ParsedFields as the specification gives them
FieldDefaults ==
    [sender   |-> PyStr(<<"Unknown">>),
     type     |-> PyStr(<<"Unknown">>),
     aircraft |-> PyStr(<<"Not specified">>),
     details  |-> PyStr(<<"No details provided">>),
     response |-> PyStr(<<"No response generated">>)]

\* a text that is empty or white space only
AllSpace(s) == \A i \in 1..Len(s) : IsSpace(s[i])

\* the lines of a text: where each starts, and the line that starts at i
LineStarts(s) == {i \in 1..Len(s) : i = 1 \/ s[i - 1] = "\n"}
LineAt(s, i) ==
    LET ends == {e \in i..(Len(s) + 1) : e = Len(s) + 1 \/ s[e] = "\n"}
    IN  SubSeq(s, i, (CHOOSE e \in ends : \A k \in ends : e <= k) - 1)

\* a value as C6 allows it
PlainValue(v) ==
    /\ v # <<>>
    /\ ~IsSpace(v[1]) /\ ~IsSpace(v[Len(v)])
    /\ \A i \in 1..Len(v) : v[i] # "\n" /\ v[i] # "Error:" /\ Upper(v[i]) \notin TagSet
    /\ v \notin Sentinels

\* a line "<TAG>: <value>" with such a value
PlainLine(l) ==
    /\ Len(l) >= 3
    /\ l[1] \in TagSet
    /\ l[2] = " "
    /\ PlainValue(SubSeq(l, 3, Len(l)))

\* a tag line whose value is empty (white space only) or a sentinel
HollowLine(l) ==
    /\ Len(l) >= 1
    /\ l[1] \in TagSet
    /\ \/ \A i \in 2..Len(l) : IsSpace(l[i])
       \/ Len(l) >= 3 /\ l[2] = " " /\ SubSeq(l, 3, Len(l)) \in Sentinels

\* no tag heads two lines
DistinctTags(s) == \A i, j \in LineStarts(s) : i # j => s[i] # s[j]

\* the text is some of the five tags, one per line, each with a plain value
PlainBlock(s) ==
    /\ \A i \in LineStarts(s) : PlainLine(LineAt(s, i))
    /\ DistinctTags(s)

\* the value written on the line of key's tag, the default when there is none
Written(s, key) ==
    IF \E i \in LineStarts(s) : s[i] = TagOf[key]
    THEN LET i == CHOOSE i \in LineStarts(s) : s[i] = TagOf[key]
         IN  PyStr(SubSeq(LineAt(s, i), 3, Len(LineAt(s, i))))
    ELSE FieldDefaults[key]

\* the five-line reply of the round-trip example
ExampleReply ==
    <<"SENDER:", " ", "PILOT", "\n",
      "TYPE:", " ", "EMERGENCY", "\n",
      "AIRCRAFT:", " ", "N123AB", "\n",
      "DETAILS:", " ", "engine", " ", "fire", "\n",
      "RESPONSE:", " ", "Declare emergency, cleared direct, N123AB">>

ExampleFields ==
    [sender   |-> PyStr(<<"PILOT">>),
     type     |-> PyStr(<<"EMERGENCY">>),
     aircraft |-> PyStr(<<"N123AB">>),
     details  |-> PyStr(<<"engine", " ", "fire">>),
     response |-> PyStr(<<"Declare emergency, cleared direct, N123AB">>)]

Classifying == op = "classify_message"
Probing == op = "validate_connection"
Parsing == op = "parse_response"
Building == op = "generate_classification_prompt"
Done == pc = "done"

----------------------------------------------------------------------------
\* C1: a classify_message call with an empty or white-space-only message, with
\* any sender type, returns {success: False, error: "Please enter a message to
\* classify", data: {}} and issues no request during the call.
C1_BlankMessageRejected ==
    (Classifying /\ AllSpace(message)) =>
        /\ Done
        /\ posts = <<>>
        /\ result = Return([success |-> FALSE,
                            error |-> PyStr(<<"Please enter a message to classify">>),
                            data |-> <<>>])

C1_Witness ==
    /\ Classifying /\ Done
    /\ message = <<" ", "\n", "\t">>
    /\ sender_type = "PILOT"
    /\ result.kind = "return"
    /\ ncalls = MaxCalls

\* a mapping with the five keys
FiveKeys(data) == DOMAIN data = Keys

\* C2: a classify_message call with a non-blank message returns, whatever the
\* request came to, {success: True, error: None, data, raw_response}: the
\* raw_response is the text call_ollama_api returned, data has the five keys,
\* and when that text is an error string data.details is that text.
C2_AlwaysSuccess ==
    (Classifying /\ Done /\ ~AllSpace(message)) =>
        /\ result.kind = "return"
        /\ DOMAIN result.value = {"success", "error", "data", "raw_response"}
        /\ result.value.success = TRUE
        /\ result.value.error = PyNone
        /\ result.value.raw_response = raw_response
        /\ raw_response.t = "str"
        /\ FiveKeys(result.value.data)
        /\ In("Error:", raw_response) => result.value.data.details = raw_response

\* the text C3 gives for each class of failure
C3_Text(o) ==
    CASE o.kind = "response" /\ o.status # 200 ->
            <<"Error:", " ", "HTTP", " ", ToString(o.status), " ", "-", " ">> \o o.text
      [] o.kind \in {"connection", "timeout"} ->
            <<"Error:", " ", "Connection", " ", "Error:", " ">> \o o.detail
      [] o.kind = "response" /\ o.status = 200 /\ o.shape = "undecodable" ->
            <<"Error:", " ", "JSON", " ", "Error:", " ">> \o o.detail
      [] o.kind = "fault" ->
            <<"Error:", " ", "Unexpected", " ", "Error:", " ">> \o o.detail

IsFailure(o) ==
    \/ o.kind \in {"connection", "timeout", "fault"}
    \/ o.kind = "response" /\ o.status # 200
    \/ o.kind = "response" /\ o.status = 200 /\ o.shape = "undecodable"

\* C3: call_ollama_api returns for each class of failure the text "Error: "
\* followed by the label of that class alone: "Error: HTTP <status> - <body>",
\* "Error: Connection Error: <detail>" (timeouts too), "Error: JSON Error:
\* <detail>" for an undecodable body, "Error: Unexpected Error: <detail>" for
\* any other fault.
C3_FailureLabels ==
    (Classifying /\ Done /\ IsFailure(outcome)) =>
        raw_response = PyStr(C3_Text(outcome))

\* C4: for a text that is empty or holds "Error:" anywhere, parse_response
\* returns the defaults for sender, type, aircraft and response, and details
\* equal to the whole text ("No response received" for the empty text), also
\* when the text holds well-formed tag lines.
C4_ErrorShortCircuit ==
    (Parsing /\ Done /\ (raw_response.v = <<>> \/ In("Error:", raw_response))) =>
        result = Return([FieldDefaults EXCEPT !.details =
                            IF raw_response.v = <<>>
                            THEN PyStr(<<"No response received">>)
                            ELSE raw_response])

C4_Witness ==
    /\ Parsing /\ Done
    /\ raw_response = PyStr(ExampleReply \o <<"\n", "Connection", " ", "Error:", " ", "refused">>)
    /\ result.kind = "return"
    /\ result.value.sender = PyStr(<<"Unknown">>)

\* a non-empty string
IsText(x) == x.t = "str" /\ x.v # <<>>

\* C5: no call aborts its caller: call_ollama_api returns a text whatever the
\* request came to, the parsed data are the five keys with a non-empty string
\* each, and validate_connection returns {success, message}.
C5_NoCallAborts ==
    Done =>
        /\ result.kind = "return"
        /\ (Classifying /\ ~AllSpace(message)) =>
              /\ raw_response.t = "str"
              /\ FiveKeys(result.value.data)
              /\ \A k \in Keys : IsText(result.value.data[k])
        /\ Probing => DOMAIN result.value = {"success", "message"}

\* C6 as stated: for any subset of the five tags, one per line in any order,
\* each with a plain value, parse_response returns the written value of every
\* tag present and the default of every tag absent.
C6_AnySubset ==
    (Parsing /\ Done /\ PlainBlock(raw_response.v)) =>
        result = Return([key \in Keys |-> Written(raw_response.v, key)])

\* C6: for any non-empty subset of the five tags, one per line in any order,
\* each with a plain value, parse_response returns the written value of every
\* tag present and the default of every tag absent, whatever the order of the
\* lines; the five-line example yields its five values.
C6_NonEmptySubset ==
    (Parsing /\ Done /\ PlainBlock(raw_response.v) /\ raw_response.v # <<>>) =>
        /\ result = Return([key \in Keys |-> Written(raw_response.v, key)])
        /\ raw_response.v = ExampleReply => result.value = ExampleFields

C6_Witness ==
    /\ Parsing /\ Done
    /\ raw_response.v = <<"RESPONSE:", " ", "Cleared for takeoff runway 28R, United 456", "\n",
                          "DETAILS:", " ", "engine", " ", "fire", "\n",
                          "SENDER:", " ", "PILOT", "\n">>
    /\ PlainBlock(raw_response.v)
    /\ result.kind = "return"
    /\ result.value.details = PyStr(<<"engine", " ", "fire">>)
    /\ result.value.aircraft = PyStr(<<"Not specified">>)

\* the text is tag lines, one per tag, each plain or hollow
TagBlock(s) ==
    /\ \A i \in LineStarts(s) : PlainLine(LineAt(s, i)) \/ HollowLine(LineAt(s, i))
    /\ DistinctTags(s)

\* C7: a field whose tag line carries an empty value (white space only up to
\* the line break), "[Not specified]" or "N/A" keeps its default, whatever
\* tagged lines precede or follow that line.
C7_HollowKeepsDefault ==
    (Parsing /\ Done /\ TagBlock(raw_response.v) /\ raw_response.v # <<>>) =>
        \A key \in Keys :
            \A i \in LineStarts(raw_response.v) :
                (raw_response.v[i] = TagOf[key] /\ HollowLine(LineAt(raw_response.v, i)))
                    => result.value[key] = FieldDefaults[key]

\* C8: validate_connection issues one request carrying the one-line payload
\* "Hello", returns success exactly when the status is 200 and the body
\* decodes as JSON, whatever the JSON holds, and otherwise returns failure
\* with a non-empty message.
C8_ProbeSuccessIffJson ==
    (Probing /\ Done) =>
        /\ Len(posts) = 1
        /\ posts[1].messages = <<[role |-> "user", content |-> <<"Hello">>]>>
        /\ result.kind = "return"
        /\ result.value.success =
              (outcome.kind = "response" /\ outcome.status = 200
                  /\ outcome.shape # "undecodable")
        /\ ~result.value.success => IsText(result.value.message)

\* C9: a classify_message call with a non-blank message and a
\* validate_connection call issue exactly one request each, whatever it comes
\* to, and then return.
C9_OneRequestThenReturn ==
    /\ Len(posts) <= 1
    /\ (Done /\ (Probing \/ (Classifying /\ ~AllSpace(message)))) =>
          /\ Len(posts) = 1
          /\ result.kind = "return"

\* where the numbered tasks start in the prompt built from message
TaskStart == Len(PromptHead) + Len(message) + Len(PromptMid(sender_type))

\* C10: generate_classification_prompt returns a prompt for every message and
\* sender type; the instructions for the sender and for the response follow
\* the sender type alone (PILOT: sender is a pilot, ATC response; ATC: sender
\* is ATC, PILOT response; AUTO: decide the sender, counterpart response), and
\* the message stands verbatim between the quotes after "Message: ".
C10_PromptFollowsSenderType ==
    (Building /\ Done) =>
        /\ result = Return(PyStr(prompt))
        /\ prompt[Len(PromptHead)] = "Message: \""
        /\ SubSeq(prompt, Len(PromptHead) + 1, Len(PromptHead) + Len(message)) = message
        /\ prompt[Len(PromptHead) + Len(message) + 1] = "\""
        /\ prompt[TaskStart] = "\n" /\ prompt[TaskStart - 1] = "Your task:"
        /\ <<prompt[TaskStart + 1], prompt[TaskStart + Len(PromptTask(sender_type)) - 1]>> =
              CASE sender_type = "PILOT" ->
                      <<"1. This message is from a PILOT",
                        "4. Provide appropriate ATC response to this pilot message">>
                [] sender_type = "ATC" ->
                      <<"1. This message is from ATC (Air Traffic Control)",
                        "4. Provide appropriate PILOT response to this ATC message">>
                [] sender_type = "AUTO" ->
                      <<AutoSenderInstruction, AutoResponseInstruction>>

C10_Witness ==
    /\ Building /\ Done
    /\ message = <<"1. This message is from a PILOT">>
    /\ sender_type = "ATC"
    /\ prompt[TaskStart + 1] = "1. This message is from ATC (Air Traffic Control)"

\* a line that carries no tag: text that goes on from the line before
Continuation(l) == PlainValue(l)

\* tag lines with plain values, each tag once, where only lines without a tag
\* stand between the DETAILS line and the RESPONSE line or the end
DetailsBlock(s) ==
    /\ Len(s) > 0
    /\ PlainLine(LineAt(s, 1))
    /\ \A i \in LineStarts(s) : PlainLine(LineAt(s, i)) \/ Continuation(LineAt(s, i))
    /\ \A i, j \in LineStarts(s) : (i # j /\ s[i] \in TagSet) => s[i] # s[j]
    /\ \A i, j \in LineStarts(s) :
          (s[i] = "DETAILS:" /\ i < j /\ s[j] \in TagSet /\ s[j] # "RESPONSE:") =>
              \E k \in LineStarts(s) : i < k /\ k < j /\ s[k] = "RESPONSE:"

\* the text from the DETAILS: tag to the next RESPONSE: tag or the end
DetailsWhole(s) ==
    LET i == CHOOSE i \in LineStarts(s) : s[i] = "DETAILS:"
        ends == {e \in (i + 1)..(Len(s) + 1) : e = Len(s) + 1 \/ s[e] = "RESPONSE:"}
    IN  PyStr(Strip(SubSeq(s, i + 1, (CHOOSE e \in ends : \A k \in ends : e <= k) - 1)))

\* C11: the DETAILS value runs from the DETAILS: tag to the next RESPONSE: tag
\* or the end of the text, so a value of several lines is extracted whole; the
\* values of SENDER, TYPE, AIRCRAFT and RESPONSE end at the next line break or
\* the end of the text.
C11_DetailsSpanLines ==
    (Parsing /\ Done /\ DetailsBlock(raw_response.v)) =>
        result = Return([key \in Keys |->
                    IF key = "details" /\ In("DETAILS:", raw_response)
                    THEN DetailsWhole(raw_response.v)
                    ELSE Written(raw_response.v, key)])

\* the five tags, one per line, each followed by a value that is no sentinel
FiveTagLines(s) ==
    /\ Cardinality(LineStarts(s)) = Cardinality(Keys)
    /\ DistinctTags(s)
    /\ \A i \in LineStarts(s) :
          LET l == LineAt(s, i)
          IN  /\ Len(l) >= 3
              /\ l[1] \in TagSet
              /\ l[2] = " "
              /\ ~IsSpace(l[3]) /\ ~IsSpace(l[Len(l)])
              /\ SubSeq(l, 3, Len(l)) \notin Sentinels
              /\ \A j \in 1..Len(l) : l[j] # "Error:"

\* C12: each field takes its value from the line that begins with its tag:
\* when the five tagged lines are present and one value holds the text of
\* another tag in mid-line, in any letter case, every field still receives the
\* value of its own line.
C12_OwnLineValue ==
    (Parsing /\ Done /\ FiveTagLines(raw_response.v)) =>
        result = Return([key \in Keys |-> Written(raw_response.v, key)])

\* an HTTP 200 reply whose message.content is missing or null
NoContent(o) ==
    /\ o.kind = "response" /\ o.status = 200
    /\ \/ o.shape \in {"no_message", "no_content"}
       \/ o.shape = "content" /\ o.content.t = "none"

\* C13: call_ollama_api never returns an absent value: whatever the request
\* came to, HTTP 200 with message.content missing or null included, it returns
\* a string, so classify_message never returns the error "No response from
\* Ollama API"; an HTTP 200 reply without message.content ends as success True
\* with data.details "No response received".
C13_SendReturnsString ==
    (Classifying /\ Done /\ ~AllSpace(message)) =>
        /\ raw_response.t = "str"
        /\ result.kind = "return" => result.value.error # NoResponseError.error
        /\ NoContent(outcome) =>
              /\ result.kind = "return"
              /\ result.value.success = TRUE
              /\ result.value.data.details = PyStr(<<"No response received">>)

\* the stored connection_status has success True
Connected == connection_status.kind = "return" /\ connection_status.value.success

\* C14: over any sequence of Test Connection clicks, edits of the URL and model
\* fields and Process clicks, classify_message is called only while the stored
\* connection_status has success True, and on a URL and model a connection
\* test has succeeded for; a Process click without a successful test shows the
\* warning, classifies nothing and leaves last_result as it was.
C14_ClassifyOnlyTested ==
    /\ run.classified => (Connected /\ run.on \in tested)
    /\ (run.event = "process" /\ ~Connected) =>
          (run.warned /\ ~run.classified /\ ~run.wrote)

\* C15: every capture handler a Process click attaches to the root logger is
\* detached before that script run ends, on every path, so after any sequence
\* of Process clicks no capture handler is attached to the root logger.
C15_HandlersDetached == root_handlers = 0

====
